---- MODULE Spec2Model ----
(***************************************************************************)
(* Virtual Data Room: the application shell (load / regenerate / sync /    *)
(* check-for-changes against the HTTP API), the listing filter and the     *)
(* native directory picker.                                                *)
(*                                                                         *)
(* Strings the program inspects (folder path, node names, search text)     *)
(* are sequences of one-character strings, so that trim, toLowerCase,      *)
(* includes and split("/").pop() are computed and not assumed.             *)
(* An optional value (children?: FileNode[], string | null) is a sequence  *)
(* of length 0 (absent) or 1 (present).                                    *)
(***************************************************************************)
EXTENDS Integers, Sequences, FiniteSets, TLC

VARIABLES
    variant,        \* which App component is mounted: "diff", "api" or "native"
    folderPath,     \* useState("") folder path input
    rootDirectory,  \* useState<FileNode | null>(null)
    summaries,      \* useState<FileSummary[]>([])
    searchQuery,    \* useState("")
    isLoading,      \* useState(false)
    error,          \* useState<string | null>(null)
    hasChanges,     \* useState(false)
    isCheckingDiff, \* useState(false)
    diffChecked,    \* useState(false)
    effectPath,     \* dependency [rootDirectory?.path] last seen by the auto-check effect
    cycles,         \* handleLoadFolder / handleRegenerate / handleSync calls awaiting a response
    net,            \* HTTP requests sent and not yet answered (a diff request stands
                    \* for the checkForChanges call awaiting it)
    opCount,        \* number of handler calls the user has started so far
    clock,          \* number of asynchronous calls started so far (the call's id)
    flagStamp,      \* when hasChanges / diffChecked were last written: 2 * id of the
                    \* check that wrote them, 2 * clock + 1 for a Regenerate or Sync
    lastDone,       \* the handler call that completed last, and how
    loading,        \* native-picker shell: useState(false)
    allFiles,       \* native-picker shell: useState<FileNode[]>([])
    usesFallback,   \* native-picker shell: useState(false)
    inputFiles,     \* native-picker shell: the File[] of the change event that
                    \* buildFileTree built the tree from
    pickers,        \* native-picker shell: handleSelectDirectory calls awaiting the
                    \* picker or the traversal, and file inputs they have opened
    expandedDirs,   \* TreeView: useState<Set<string>>(new Set()) of the top-level tree
    selectedFile,   \* useState<FileNode | null>(null)
    showFileDetail, \* useState(false)
    fileContent,    \* FileDetail: useState<string | null>(null)
    previewType,    \* FileDetail: useState("unsupported")
    mounts,         \* number of times FileDetail has been mounted (the mount's id)
    previews,       \* loadFilePreview calls awaiting getFile() or text()
    objectURLs,     \* object URLs created and not revoked, by the mount that made them
    rejections,     \* loadFilePreview promises that rejected, by mount (nothing
                    \* handles them)
    columnWidths,   \* FileList: useState({number: 50, icon: 40, name: 180, ...})
    sortColumn,     \* FileList: useState<SortColumn | null>(null)
    sortDirection,  \* FileList: useState<SortDirection>("asc")
    resizing,       \* FileList: useState<string | null>(null)
    startX,         \* FileList: startXRef.current
    startWidth,     \* FileList: startWidthRef.current
    listeners,      \* the listeners FileList has registered on document
    drags           \* number of mouse-downs on a resize handle so far

vars == <<variant, folderPath, rootDirectory, summaries, searchQuery, isLoading,
          error, hasChanges, isCheckingDiff, diffChecked, effectPath, cycles,
          net, opCount, clock, flagStamp, lastDone, loading, allFiles,
          usesFallback, inputFiles, pickers, expandedDirs, selectedFile,
          showFileDetail, fileContent, previewType, mounts, previews, objectURLs,
          rejections, columnWidths, sortColumn, sortDirection, resizing, startX,
          startWidth, listeners, drags>>

\* state of the API-backed shells only / of the native-picker shell only
apiOnlyVars == <<folderPath, summaries, isLoading, error, hasChanges, isCheckingDiff,
                 diffChecked, effectPath, cycles, net, flagStamp>>

nativeOnlyVars == <<loading, allFiles, usesFallback, inputFiles, pickers>>

\* state of the detail pane and of the selection
detailVars == <<selectedFile, showFileDetail, fileContent, previewType, mounts,
                previews, objectURLs, rejections>>

\* if (showFileDetail && selectedFile) return <FileDetail ... />: the shell
\* renders the detail pane alone
DetailOpen == showFileDetail /\ selectedFile # << >>

\* the header, the tree and the listing are rendered
ShellVisible == ~DetailOpen

\* state of the listing
listVars == <<columnWidths, sortColumn, sortDirection, resizing, startX, startWidth,
              listeners>>

\* the initial state of columnWidths
InitialWidths ==
    [number |-> 50, icon |-> 40, name |-> 180, type |-> 80, size |-> 90,
     lastModified |-> 150, summary |-> 250, path |-> 200]

\* an unmount whose effect clean-up left the document listeners registered
unmountKeepsListeners ==
    /\ columnWidths' = InitialWidths
    /\ sortColumn' = << >>
    /\ sortDirection' = "asc"
    /\ resizing' = << >>
    /\ startX' = 0
    /\ startWidth' = 0
    /\ listeners' = listeners

\* FileList is unmounted: the clean-up of its effect removes the mousemove
\* and mouseup listeners, and its state and refs are discarded, so that the
\* next FileList starts from the initial values
unmountFileList ==
    /\ columnWidths' = InitialWidths
    /\ sortColumn' = << >>
    /\ sortDirection' = "asc"
    /\ resizing' = << >>
    /\ startX' = 0
    /\ startWidth' = 0
    /\ listeners' = {}

\* a step of the shell that leaves the selection and the detail pane alone:
\* the TreeView keeps its expanded set and the FileList its state while they
\* stay mounted, that is while a root directory is rendered
ViewKept ==
    /\ expandedDirs' = IF rootDirectory' = << >> THEN {} ELSE expandedDirs
    /\ IF rootDirectory' = << >> THEN unmountFileList ELSE UNCHANGED listVars
    /\ UNCHANGED drags
    /\ UNCHANGED detailVars

(***************************************************************************)
(* Bounds                                                                  *)
(***************************************************************************)
\* asynchronous handler calls (Load, Regenerate, Sync, Check Changes,
\* Select Directory) a behaviour may start
MaxOps == 2

(***************************************************************************)
(* Strings                                                                 *)
(***************************************************************************)
None == << >>

Some(x) == << x >>

Lowers == <<"a", "b", "c", "d", "e", "f", "g", "h", "i", "j", "k", "l", "m",
            "n", "o", "p", "q", "r", "s", "t", "u", "v", "w", "x", "y", "z">>

Uppers == <<"A", "B", "C", "D", "E", "F", "G", "H", "I", "J", "K", "L", "M",
            "N", "O", "P", "Q", "R", "S", "T", "U", "V", "W", "X", "Y", "Z">>

IsUpper(c) == \E i \in 1..Len(Uppers) : Uppers[i] = c

\* String.prototype.toLowerCase on one character
LowerChar(c) ==
    IF IsUpper(c) THEN Lowers[CHOOSE i \in 1..Len(Uppers) : Uppers[i] = c] ELSE c

toLowerCase(s) == [i \in 1..Len(s) |-> LowerChar(s[i])]

\* String.prototype.includes: sub occurs in s as a contiguous substring
includes(s, sub) ==
    \E i \in 0..(Len(s) - Len(sub)) :
        \A j \in 1..Len(sub) : s[i + j] = sub[j]

IsSpace(c) == c = " "

\* String.prototype.trim: drop leading and trailing white space
RECURSIVE trimStart(_)
trimStart(s) ==
    IF s # << >> /\ IsSpace(Head(s)) THEN trimStart(Tail(s)) ELSE s

RECURSIVE trimEnd(_)
trimEnd(s) ==
    IF s # << >> /\ IsSpace(s[Len(s)]) THEN trimEnd(SubSeq(s, 1, Len(s) - 1)) ELSE s

trim(s) == trimEnd(trimStart(s))

\* s.split("/").pop(): the part of s after its last "/"
RECURSIVE lastSegment(_)
lastSegment(s) ==
    IF s = << >> THEN << >>
    ELSE IF s[Len(s)] = "/" THEN << >>
    ELSE Append(lastSegment(SubSeq(s, 1, Len(s) - 1)), s[Len(s)])

\* folderPath.split("/").pop() || folderPath
rootName(fp) == IF lastSegment(fp) # << >> THEN lastSegment(fp) ELSE fp

\* the characters in collation order: white space, punctuation, letters
CollationOrder == <<" ", ".", "/">> \o Lowers

\* the primary collation weight of a character (case is not primary)
Weight(c) == CHOOSE i \in 1..Len(CollationOrder) : CollationOrder[i] = LowerChar(c)

\* lexicographic comparison of the primary weights: -1, 0 or 1
RECURSIVE comparePrimary(_, _)
comparePrimary(a, b) ==
    IF a = << >> /\ b = << >> THEN 0
    ELSE IF a = << >> THEN -1
    ELSE IF b = << >> THEN 1
    ELSE IF Weight(Head(a)) < Weight(Head(b)) THEN -1
    ELSE IF Weight(Head(a)) > Weight(Head(b)) THEN 1
    ELSE comparePrimary(Tail(a), Tail(b))

\* the case difference of two strings with equal primary weights: at the
\* first position where they differ the lower-case one sorts first
RECURSIVE compareCase(_, _)
compareCase(a, b) ==
    IF a = << >> THEN 0
    ELSE IF Head(a) = Head(b) THEN compareCase(Tail(a), Tail(b))
    ELSE IF IsUpper(Head(b)) THEN -1
    ELSE 1

\* String.prototype.localeCompare in the default locale
localeCompare(a, b) ==
    IF comparePrimary(a, b) # 0 THEN comparePrimary(a, b) ELSE compareCase(a, b)

\* s.split("/")
RECURSIVE split(_)
split(s) ==
    IF \A i \in 1..Len(s) : s[i] # "/" THEN <<s>>
    ELSE LET k == CHOOSE i \in 1..Len(s) : s[i] = "/" /\ \A j \in 1..(i - 1) : s[j] # "/"
         IN  <<SubSeq(s, 1, k - 1)>> \o split(SubSeq(s, k + 1, Len(s)))

\* the compare function of children.sort: directories first, then by name
compareNodes(a, b) ==
    IF a.isDirectory /\ ~b.isDirectory THEN -1
    ELSE IF ~a.isDirectory /\ b.isDirectory THEN 1
    ELSE localeCompare(a.name, b.name)

\* file.webkitRelativePath || file.name
relativePathOf(file) ==
    IF file.webkitRelativePath # << >> THEN file.webkitRelativePath ELSE file.name

\* the compare function of [...files].sort: by relative path
compareFiles(a, b) == localeCompare(relativePathOf(a), relativePathOf(b))

compareBy(what, a, b) == IF what = "nodes" THEN compareNodes(a, b) ELSE compareFiles(a, b)

\* Array.prototype.sort, which is stable: insertion, equal elements kept in order
RECURSIVE insertSorted(_, _, _)
insertSorted(x, sorted, what) ==
    IF sorted = << >> THEN <<x>>
    ELSE IF compareBy(what, x, Head(sorted)) < 0 THEN <<x>> \o sorted
    ELSE <<Head(sorted)>> \o insertSorted(x, Tail(sorted), what)

RECURSIVE sort(_, _)
sort(s, what) ==
    IF s = << >> THEN << >>
    ELSE insertSorted(s[Len(s)], sort(SubSeq(s, 1, Len(s) - 1), what), what)

(***************************************************************************)
(* Data: FileNode, the API's tree and summary responses                    *)
(***************************************************************************)
\* interface ApiFileNode
ApiNode(path, name, type, size, mtime, kids) ==
    [file_path |-> path, file_name |-> name, file_type |-> type,
     file_size |-> size, last_modified_time |-> mtime, children |-> kids]

ApiX == ApiNode(<<"x">>, <<"A", "b">>, "file", 5, 1, None)

ApiY == ApiNode(<<"d", "/", "b">>, <<"b">>, "file", 7, 2, None)

ApiD == ApiNode(<<"d">>, <<"d">>, "directory", 0, 3, Some(<<ApiY>>))

\* bodies a 2xx answer of POST /api/v1/tree may carry
TreeResponses == { << >>, <<ApiX, ApiD>> }

\* interface FileSummary (the fields the client reads)
Summary(path) == [filePath |-> path, summary |-> "text"]

\* the summaries of a 2xx answer of POST /api/v1/summarize/folder
SummaryResponses ==
    { << >>, <<Summary(<<"x">>), Summary(<<"d", "/", "b">>)>> }

\* how a request can end: 2xx with a parsable body, non-2xx, fetch rejects,
\* response.json() rejects
FailureKinds == {"http", "network", "parse"}

\* convertApiNodeToFileNode
RECURSIVE convertApiNodeToFileNode(_)
convertApiNodeToFileNode(apiNode) ==
    [name |-> apiNode.file_name,
     path |-> apiNode.file_path,
     isDirectory |-> (apiNode.file_type = "directory"),
     size |-> Some(apiNode.file_size),
     lastModified |-> Some(apiNode.last_modified_time * 1000),
     handle |-> "none",
     children |->
        IF apiNode.children # None
        THEN Some([i \in 1..Len(apiNode.children[1]) |->
                      convertApiNodeToFileNode(apiNode.children[1][i])])
        ELSE None]

\* const rootNode: FileNode = { name: ..., path: folderPath, isDirectory: true, children: ... }
rootNode(fp, treeData) ==
    [name |-> rootName(fp),
     path |-> fp,
     isDirectory |-> TRUE,
     size |-> None,
     lastModified |-> None,
     handle |-> "none",
     children |-> Some([i \in 1..Len(treeData) |-> convertApiNodeToFileNode(treeData[i])])]

\* flattenFiles: the node, then the flattened children in order
RECURSIVE flattenFiles(_)
RECURSIVE flattenAll(_)
flattenFiles(node) ==
    <<node>> \o (IF node.children # None THEN flattenAll(node.children[1]) ELSE << >>)

flattenAll(nodes) ==
    IF nodes = << >> THEN << >>
    ELSE flattenFiles(Head(nodes)) \o flattenAll(Tail(nodes))

(***************************************************************************)
(* The client-side tree builders                                           *)
(***************************************************************************)
\* "root", the path of the root built from a flat file list
RootPath == <<"r", "o", "o", "t">>

\* "Selected Directory"
RootLabel == <<"S", "e", "l", "e", "c", "t", "e", "d", " ",
               "D", "i", "r", "e", "c", "t", "o", "r", "y">>

\* a File of the manual file input
FileOf(relPath, size, mtime) ==
    [webkitRelativePath |-> relPath, name |-> lastSegment(relPath),
     size |-> size, lastModified |-> mtime]

\* a node object under construction: kids are object ids; hasChildren says
\* whether the object has a children array at all
NodeObject(name, path, isDirectory, handle, size, mtime) ==
    [name |-> name, path |-> path, isDirectory |-> isDirectory, handle |-> handle,
     size |-> size, lastModified |-> mtime, hasChildren |-> isDirectory, kids |-> << >>]

\* nodeMap.has(path) / nodeMap.get(path) / nodeMap.set(path, node); the map
\* is a set of <<path, object id>> pairs
mapHas(map, path) == \E e \in map : e[1] = path

mapGet(map, path) == (CHOOSE e \in map : e[1] = path)[2]

mapSet(map, path, id) == {e \in map : e[1] # path} \cup {<<path, id>>}

\* const parent = nodeMap.get(p); if (parent && parent.children) parent.children.push(node)
pushChild(objs, map, parentPath, id) ==
    IF mapHas(map, parentPath) /\ objs[mapGet(map, parentPath)].hasChildren
    THEN [objs EXCEPT ![mapGet(map, parentPath)].kids = Append(@, id)]
    ELSE objs

\* currentPath === "root" ? part : `${currentPath}/${part}`
joinPath(currentPath, part) ==
    IF currentPath = RootPath THEN part ELSE currentPath \o <<"/">> \o part

\* the loop "Create all parent directories" from index i on
RECURSIVE createParents(_, _, _)
createParents(st, parts, i) ==
    IF i > Len(parts) - 1 THEN st
    ELSE LET parentPath == st.currentPath
             currentPath == joinPath(st.currentPath, parts[i])
             id == Len(st.objs) + 1
             dirNode == NodeObject(parts[i], currentPath, TRUE, "none", None, None)
         IN  IF ~mapHas(st.map, currentPath)
             THEN createParents(
                     [objs |-> pushChild(Append(st.objs, dirNode),
                                         mapSet(st.map, currentPath, id), parentPath, id),
                      map |-> mapSet(st.map, currentPath, id),
                      currentPath |-> currentPath], parts, i + 1)
             ELSE createParents([st EXCEPT !.currentPath = currentPath], parts, i + 1)

\* the body of sortedFiles.forEach
addFile(objs, map, file) ==
    LET parts == split(relativePathOf(file))
        st == createParents([objs |-> objs, map |-> map, currentPath |-> RootPath], parts, 1)
        fileName == parts[Len(parts)]
        filePath == joinPath(st.currentPath, fileName)
        id == Len(st.objs) + 1
        fileNode == NodeObject(fileName, filePath, FALSE, "file",
                               Some(file.size), Some(file.lastModified))
    IN  [objs |-> pushChild(Append(st.objs, fileNode), mapSet(st.map, filePath, id),
                            st.currentPath, id),
         map |-> mapSet(st.map, filePath, id)]

RECURSIVE addFiles(_, _, _)
addFiles(objs, map, files) ==
    IF files = << >> THEN objs
    ELSE LET st == addFile(objs, map, Head(files))
         IN  addFiles(st.objs, st.map, Tail(files))

\* the tree below object id, every children array sorted (sortChildren)
RECURSIVE materialize(_, _)
materialize(objs, id) ==
    [name |-> objs[id].name,
     path |-> objs[id].path,
     isDirectory |-> objs[id].isDirectory,
     size |-> objs[id].size,
     lastModified |-> objs[id].lastModified,
     handle |-> objs[id].handle,
     children |->
        IF objs[id].hasChildren
        THEN Some(sort([i \in 1..Len(objs[id].kids) |-> materialize(objs, objs[id].kids[i])],
                       "nodes"))
        ELSE None]

\* buildFileTree
buildFileTree(files) ==
    LET root == NodeObject(RootLabel, RootPath, TRUE, "none", None, None)
        objs == addFiles(<<root>>, {<<RootPath, 1>>}, sort(files, "files"))
    IN  materialize(objs, 1)

\* a FileSystemDirectoryHandle / FileSystemFileHandle: entries in the order
\* dirHandle.values() yields them
DirHandle(name, entries) ==
    [kind |-> "directory", name |-> name, entries |-> entries, size |-> 0, lastModified |-> 0]

FileHandle(name, size, mtime) ==
    [kind |-> "file", name |-> name, entries |-> << >>, size |-> size, lastModified |-> mtime]

\* traverseDirectory
RECURSIVE traverseDirectory(_, _)
traverseDirectory(dirHandle, path) ==
    LET currentPath == IF path # << >> THEN path \o <<"/">> \o dirHandle.name
                       ELSE dirHandle.name
        child(entry) ==
            IF entry.kind = "directory" THEN traverseDirectory(entry, currentPath)
            ELSE [name |-> entry.name,
                  path |-> currentPath \o <<"/">> \o entry.name,
                  isDirectory |-> FALSE,
                  size |-> Some(entry.size),
                  lastModified |-> Some(entry.lastModified),
                  handle |-> "fileHandle",
                  children |-> None]
    IN  [name |-> dirHandle.name,
         path |-> currentPath,
         isDirectory |-> TRUE,
         size |-> None,
         lastModified |-> None,
         handle |-> "dirHandle",
         children |-> Some(sort([i \in 1..Len(dirHandle.entries) |->
                                    child(dirHandle.entries[i])], "nodes"))]

\* Array.prototype.filter
RECURSIVE SelectSeqOf(_, _)
SelectSeqOf(s, keep) ==
    IF s = << >> THEN << >>
    ELSE (IF Head(s) \in keep THEN <<Head(s)>> ELSE << >>) \o SelectSeqOf(Tail(s), keep)

Range(s) == {s[i] : i \in 1..Len(s)}

\* summaries.some(s => s.filePath === file.path)
hasSummary(file, sums) == \E i \in 1..Len(sums) : sums[i].filePath = file.path

\* file.name.toLowerCase().includes(searchQuery.toLowerCase())
matchesSearch(file, query) == includes(toLowerCase(file.name), toLowerCase(query))

\* filteredFiles of the shell with change detection: a summary and a name match
filteredFilesGated(root, sums, query) ==
    IF root # None
    THEN LET all == flattenFiles(root[1])
         IN  SelectSeqOf(all, {f \in Range(all) : hasSummary(f, sums) /\ matchesSearch(f, query)})
    ELSE << >>

\* filteredFiles of the shell without change detection: a name match alone
filteredFilesByName(root, query) ==
    IF root # None
    THEN LET all == flattenFiles(root[1])
         IN  SelectSeqOf(all, {f \in Range(all) : matchesSearch(f, query)})
    ELSE << >>

\* the listing handed to <FileList files={filteredFiles} />
filteredFiles ==
    IF variant = "diff"
    THEN filteredFilesGated(rootDirectory, summaries, searchQuery)
    ELSE IF variant = "api"
    THEN filteredFilesByName(rootDirectory, searchQuery)
    ELSE SelectSeqOf(allFiles, {f \in Range(allFiles) : matchesSearch(f, searchQuery)})

(***************************************************************************)
(* The API-backed shells                                                   *)
(***************************************************************************)
\* texts the user may type into the folder path input
FolderInputs == { << >>, <<"a">>, <<"b", " ">> }

\* texts the user may type into the search input
SearchTexts == { << >>, <<"B">> }

ApiShell == variant \in {"diff", "api"}

\* rootDirectory?.path
pathOf(root) == IF root # None THEN Some(root[1].path) ELSE None

\* a request: its endpoint and JSON body (regenerate and sync are absent in
\* the bodies that do not set them), and the handler call that awaits it
Request(owner, api, fp, regenerate, sync) ==
    [owner |-> owner, api |-> api, folderPath |-> trim(fp),
     regenerate |-> regenerate, sync |-> sync]

\* a handler call suspended at an await
\* kind: the handler; pc: the request awaited; fp: the folderPath of the
\* closure; snapRoot, snapSummaries: the tree and summaries when it was
\* triggered; treeData, summaryData: the bodies received so far
Cycle(id, kind, pc, fp) ==
    [id |-> id, kind |-> kind, pc |-> pc, fp |-> fp,
     snapRoot |-> rootDirectory, snapSummaries |-> summaries,
     treeData |-> None, summaryData |-> None]

\* the record of a completed handler call: which handler, whether its try
\* block ran to the end, and the request it was resumed by
Done(c, ok) == [kind |-> c.kind, ok |-> ok, at |-> c.pc]

\* how a request can end, with the body of a 2xx answer
Outcomes(bodies) ==
    {[kind |-> "ok", data |-> Some(b)] : b \in bodies}
        \cup {[kind |-> k, data |-> None] : k \in FailureKinds}

\* the request the call c is waiting for
Awaited(c) == {m \in net : m.owner = c.id}

\* err instanceof Error ? err.message : "..."
ErrorMessage(api, failure) ==
    IF failure = "http" THEN (IF api = "tree" THEN "Tree API error" ELSE "Summary API error")
    ELSE "err.message"

\* the controls that call handleLoadFolder, each with its disabled / guard expression
LoadButtonEnabled ==
    IF variant = "diff" THEN ~(isLoading \/ trim(folderPath) = << >>) ELSE ~isLoading

\* an Enter key handler without the !isLoading test
EnterKeyUnguarded == variant = "diff"

EnterKeyEnabled == variant = "diff" /\ ~isLoading

GetStartedEnabled == rootDirectory = None /\ ~isLoading

\* the Regenerate button: rendered when a tree is loaded (diff shell), disabled while loading
RegenerateEnabled ==
    IF variant = "diff" THEN rootDirectory # None /\ ~isLoading
    ELSE ~(isLoading \/ rootDirectory = None)

\* the Sync button of the "Folder Structure Changed" banner
SyncEnabled ==
    variant = "diff" /\ rootDirectory # None /\ diffChecked /\ hasChanges /\ ~isLoading

\* the Check Changes button
CheckChangesEnabled == variant = "diff" /\ rootDirectory # None /\ ~isCheckingDiff

\* checkForChanges() called with the closure's folder path fp: the set of
\* diff requests it sends (none when the trimmed path is empty)
checkForChanges(id, fp) ==
    IF trim(fp) = << >> THEN {} ELSE {Request(id, "diff", fp, None, None)}

PendingDiffs == {m \in net : m.api = "diff"}

\* the auto-check effect, run after a render in which rootDirectory?.path
\* differs from the value of the previous render: the diff requests it sends
autoCheck(id, newRoot, newLoading, fp) ==
    IF variant = "diff" /\ pathOf(newRoot) # effectPath /\ newRoot # None /\ ~newLoading
    THEN checkForChanges(id, fp)
    ELSE {}

\* onChange of the folder path input (header of the diff shell, welcome screen)
SetFolderPath(v) ==
    /\ ShellVisible
    /\ ApiShell
    /\ variant = "diff" \/ rootDirectory = None
    /\ v # folderPath
    /\ folderPath' = v
    /\ UNCHANGED <<variant, rootDirectory, summaries, searchQuery, isLoading, error,
                   hasChanges, isCheckingDiff, diffChecked, effectPath, cycles,
                   net, opCount, clock, flagStamp, lastDone, nativeOnlyVars>>
    /\ ViewKept

\* onChange of the search input
SetSearchQuery(q) ==
    /\ ShellVisible
    /\ rootDirectory # None
    /\ q # searchQuery
    /\ searchQuery' = q
    /\ UNCHANGED <<variant, folderPath, rootDirectory, summaries, isLoading, error,
                   hasChanges, isCheckingDiff, diffChecked, effectPath, cycles,
                   net, opCount, clock, flagStamp, lastDone, nativeOnlyVars>>
    /\ ViewKept

\* handleLoadFolder up to its first await
handleLoadFolder ==
    /\ ShellVisible
    /\ ApiShell
    /\ LoadButtonEnabled \/ EnterKeyEnabled \/ GetStartedEnabled
    /\ IF trim(folderPath) = << >>
       THEN /\ error' = Some("Please enter a folder path")
            /\ UNCHANGED <<isLoading, cycles, net, opCount, clock>>
       ELSE /\ opCount < MaxOps
            /\ isLoading' = TRUE
            /\ error' = None
            /\ opCount' = opCount + 1
            /\ clock' = clock + 1
            /\ cycles' = cycles \cup {Cycle(clock + 1, "load", "tree", folderPath)}
            /\ net' = net \cup {Request(clock + 1, "tree", folderPath, Some(FALSE), None)}
    /\ UNCHANGED <<variant, folderPath, rootDirectory, summaries, searchQuery, hasChanges,
                   isCheckingDiff, diffChecked, effectPath, flagStamp, lastDone,
                   nativeOnlyVars>>
    /\ ViewKept

\* The last synchronous block of a handler call c (the try's tail or the
\* catch, then finally), the render it causes and the effects of that render.
\*   clearFlag: setHasChanges(false); setDiffChecked(false)
\*   ownCheck:  finally calls checkForChanges()
Finish(c, ok, newRoot, newSummaries, newError, clearFlag, ownCheck) ==
    LET own == IF ownCheck THEN checkForChanges(clock + 1, c.fp) ELSE {}
        auto == autoCheck(clock + 2, newRoot, FALSE, folderPath)
        started == own \cup auto
    IN  /\ cycles' = cycles \ {c}
        /\ rootDirectory' = newRoot
        /\ summaries' = newSummaries
        /\ error' = newError
        /\ isLoading' = FALSE
        /\ hasChanges' = IF clearFlag THEN FALSE ELSE hasChanges
        /\ diffChecked' = IF clearFlag THEN FALSE ELSE diffChecked
        /\ flagStamp' = IF clearFlag THEN 2 * clock + 1 ELSE flagStamp
        /\ net' = (net \ Awaited(c)) \cup started
        /\ isCheckingDiff' = IF started # {} THEN TRUE ELSE isCheckingDiff
        /\ clock' = IF started # {} THEN clock + 2 ELSE clock
        /\ effectPath' = IF variant = "diff" THEN pathOf(newRoot) ELSE effectPath
        /\ lastDone' = Some(Done(c, ok))
        /\ UNCHANGED <<variant, folderPath, searchQuery, opCount, nativeOnlyVars>>
        /\ ViewKept

\* a handler call that stored the summaries as soon as they arrived, before
\* its next request
ContinueStoringSummaries(c, pc, treeData, summaryData, request) ==
    /\ cycles' = (cycles \ {c})
                    \cup {[c EXCEPT !.pc = pc, !.treeData = treeData,
                                    !.summaryData = summaryData]}
    /\ net' = (net \ Awaited(c)) \cup {request}
    /\ summaries' = IF summaryData # None THEN summaryData[1] ELSE summaries
    /\ UNCHANGED <<variant, folderPath, rootDirectory, searchQuery, isLoading,
                   error, hasChanges, isCheckingDiff, diffChecked, effectPath, opCount,
                   clock, flagStamp, lastDone, nativeOnlyVars>>
    /\ ViewKept

\* a handler call c sends its next request and suspends again
Continue(c, pc, treeData, summaryData, request) ==
    /\ cycles' = (cycles \ {c})
                    \cup {[c EXCEPT !.pc = pc, !.treeData = treeData,
                                    !.summaryData = summaryData]}
    /\ net' = (net \ Awaited(c)) \cup {request}
    /\ UNCHANGED <<variant, folderPath, rootDirectory, summaries, searchQuery, isLoading,
                   error, hasChanges, isCheckingDiff, diffChecked, effectPath, opCount,
                   clock, flagStamp, lastDone, nativeOnlyVars>>
    /\ ViewKept

\* a catch block of handleLoadFolder that kept the previous tree and summaries
LoadFailedKeepsTree(c, message) ==
    Finish(c, FALSE, rootDirectory, summaries, Some(message), FALSE, FALSE)

\* handleLoadFolder: catch { setError(...); setRootDirectory(null); setSummaries([]) }
\* finally { setIsLoading(false) }
LoadFailed(c, message) == Finish(c, FALSE, None, << >>, Some(message), FALSE, FALSE)

\* handleLoadFolder: setRootDirectory(rootNode); setSummaries(...); setError(null)
LoadSucceeded(c, treeData, sums) ==
    Finish(c, TRUE, Some(rootNode(c.fp, treeData)), sums, None, FALSE, FALSE)

\* handleLoadFolder resumed by the answer to its tree request
LoadTreeReturns(c, o) ==
    /\ c.kind = "load" /\ c.pc = "tree"
    /\ IF o.kind # "ok" THEN LoadFailed(c, ErrorMessage("tree", o.kind))
       ELSE IF o.data[1] = << >> THEN LoadFailed(c, "No data returned from tree API")
       ELSE Continue(c, "summary", o.data, None,
                     Request(c.id, "summarize", c.fp, Some(FALSE), None))

\* handleLoadFolder resumed by the answer to its summary request.  The shell
\* with change detection continues without summaries on a non-2xx status or
\* an unparsable body; the other shell throws on both.
LoadSummaryReturns(c, o) ==
    /\ c.kind = "load" /\ c.pc = "summary"
    /\ IF o.kind = "ok" THEN LoadSucceeded(c, c.treeData[1], o.data[1])
       ELSE IF variant = "diff" /\ o.kind \in {"http", "parse"}
            THEN LoadSucceeded(c, c.treeData[1], << >>)
       ELSE LoadFailed(c, ErrorMessage("summarize", o.kind))

\* handleRegenerate up to its first await
handleRegenerate ==
    /\ ShellVisible
    /\ ApiShell
    /\ RegenerateEnabled
    /\ ~(trim(folderPath) = << >> \/ rootDirectory = None)
    /\ opCount < MaxOps
    /\ isLoading' = TRUE
    /\ error' = None
    /\ opCount' = opCount + 1
    /\ clock' = clock + 1
    /\ cycles' = cycles \cup {Cycle(clock + 1, "regenerate", "tree", folderPath)}
    /\ net' = net \cup {Request(clock + 1, "tree", folderPath, Some(TRUE), None)}
    /\ UNCHANGED <<variant, folderPath, rootDirectory, summaries, searchQuery, hasChanges,
                   isCheckingDiff, diffChecked, effectPath, flagStamp, lastDone,
                   nativeOnlyVars>>
    /\ ViewKept

\* a catch block of handleRegenerate / handleSync that cleared the tree as Load does
RefreshFailedClearsTree(c, message) ==
    Finish(c, FALSE, None, << >>, Some(message), FALSE, variant = "diff")

\* a finally block that re-checked for changes on the success path only
RefreshFailedWithoutCheck(c, message) ==
    Finish(c, FALSE, rootDirectory, summaries, Some(message), FALSE, FALSE)

\* handleRegenerate / handleSync: catch { setError(...) }
\* finally { setIsLoading(false); checkForChanges() } (no check in the "api" shell)
RefreshFailed(c, message) ==
    Finish(c, FALSE, rootDirectory, summaries, Some(message), FALSE, variant = "diff")

\* a success path that left hasChanges / diffChecked alone
RefreshSucceededKeepsFlag(c, treeData, sums) ==
    Finish(c, TRUE, Some(rootNode(c.fp, treeData)), sums, None, FALSE, variant = "diff")

\* handleRegenerate / handleSync: setRootDirectory(rootNode); setSummaries(...);
\* setError(null); setHasChanges(false); setDiffChecked(false), then finally
RefreshSucceeded(c, treeData, sums) ==
    Finish(c, TRUE, Some(rootNode(c.fp, treeData)), sums, None,
           variant = "diff", variant = "diff")

\* the summary request of handleRegenerate
RegenerateSummaryRequest(c) ==
    Request(c.id, "summarize", c.fp, Some(TRUE),
            IF variant = "diff" THEN Some(TRUE) ELSE None)

\* handleRegenerate resumed by the answer to its tree request
RegenerateTreeReturns(c, o) ==
    /\ c.kind = "regenerate" /\ c.pc = "tree"
    /\ IF o.kind # "ok" THEN RefreshFailed(c, ErrorMessage("tree", o.kind))
       ELSE Continue(c, "summary", o.data, None, RegenerateSummaryRequest(c))

\* handleRegenerate resumed by the answer to its summary request
RegenerateSummaryReturns(c, o) ==
    /\ c.kind = "regenerate" /\ c.pc = "summary"
    /\ IF o.kind # "ok" THEN RefreshFailed(c, ErrorMessage("summarize", o.kind))
       ELSE RefreshSucceeded(c, c.treeData[1], o.data[1])

\* Step 1 of handleSync: the summary request
SyncSummaryRequest(id, fp) == Request(id, "summarize", fp, Some(FALSE), Some(TRUE))

\* Step 2 of handleSync: the tree request
SyncTreeRequest(c) == Request(c.id, "tree", c.fp, Some(TRUE), None)

\* handleSync up to its first await
handleSync ==
    /\ ShellVisible
    /\ SyncEnabled
    /\ ~(trim(folderPath) = << >> \/ rootDirectory = None)
    /\ opCount < MaxOps
    /\ isLoading' = TRUE
    /\ error' = None
    /\ opCount' = opCount + 1
    /\ clock' = clock + 1
    /\ cycles' = cycles \cup {Cycle(clock + 1, "sync", "summary", folderPath)}
    /\ net' = net \cup {SyncSummaryRequest(clock + 1, folderPath)}
    /\ UNCHANGED <<variant, folderPath, rootDirectory, summaries, searchQuery, hasChanges,
                   isCheckingDiff, diffChecked, effectPath, flagStamp, lastDone,
                   nativeOnlyVars>>
    /\ ViewKept

\* a handleSync that went on to the tree request whatever the summary answer was
SyncSummaryReturnsUnchecked(c, o) ==
    /\ c.kind = "sync" /\ c.pc = "summary"
    /\ Continue(c, "tree", None, IF o.kind = "ok" THEN o.data ELSE None,
                SyncTreeRequest(c))

\* handleSync resumed by the answer to its summary request
SyncSummaryReturns(c, o) ==
    /\ c.kind = "sync" /\ c.pc = "summary"
    /\ IF o.kind # "ok" THEN RefreshFailed(c, ErrorMessage("summarize", o.kind))
       ELSE Continue(c, "tree", None, o.data, SyncTreeRequest(c))

\* handleSync resumed by the answer to its tree request
SyncTreeReturns(c, o) ==
    /\ c.kind = "sync" /\ c.pc = "tree"
    /\ IF o.kind # "ok" THEN RefreshFailed(c, ErrorMessage("tree", o.kind))
       ELSE RefreshSucceeded(c, o.data[1], c.summaryData[1])

\* the Check Changes button: checkForChanges up to its await
clickCheckChanges ==
    /\ ShellVisible
    /\ CheckChangesEnabled
    /\ trim(folderPath) # << >>
    /\ opCount < MaxOps
    /\ isCheckingDiff' = TRUE
    /\ opCount' = opCount + 1
    /\ clock' = clock + 1
    /\ net' = net \cup checkForChanges(clock + 1, folderPath)
    /\ UNCHANGED <<variant, folderPath, rootDirectory, summaries, searchQuery, isLoading,
                   error, hasChanges, diffChecked, effectPath, cycles, flagStamp,
                   lastDone, nativeOnlyVars>>
    /\ ViewKept

\* the record of a completed checkForChanges call
DiffDone(m, ok) ==
    [kind |-> "check", ok |-> ok, at |-> "diff", folderPath |-> m.folderPath]

\* a success path that stored the answer without marking the diff as checked
DiffAppliedUnmarked(m, changed) ==
    /\ hasChanges' = changed
    /\ diffChecked' = diffChecked
    /\ flagStamp' = 2 * m.owner
    /\ lastDone' = Some(DiffDone(m, TRUE))
    /\ UNCHANGED <<rootDirectory, summaries, error, isLoading>>

\* checkForChanges: diffResponse.ok, the body parsed:
\* setHasChanges(diffData.changed === true); setDiffChecked(true)
DiffApplied(m, changed) ==
    /\ hasChanges' = changed
    /\ diffChecked' = TRUE
    /\ flagStamp' = 2 * m.owner
    /\ lastDone' = Some(DiffDone(m, TRUE))
    /\ UNCHANGED <<rootDirectory, summaries, error, isLoading>>

\* a failure path that reported "no changes"
DiffIgnoredResetsFlag(m) ==
    /\ lastDone' = Some(DiffDone(m, FALSE))
    /\ hasChanges' = FALSE
    /\ diffChecked' = TRUE
    /\ UNCHANGED <<flagStamp, rootDirectory, summaries, error, isLoading>>

\* checkForChanges: non-2xx (console.warn) or a rejection caught (console.error)
DiffIgnored(m) ==
    /\ lastDone' = Some(DiffDone(m, FALSE))
    /\ UNCHANGED <<hasChanges, diffChecked, flagStamp, rootDirectory, summaries, error,
                   isLoading>>

\* checkForChanges resumed by the answer to its diff request;
\* finally { setIsCheckingDiff(false) }
DiffReturns(m, o) ==
    /\ m \in PendingDiffs
    /\ IF o.kind = "ok" THEN DiffApplied(m, o.data[1]) ELSE DiffIgnored(m)
    /\ isCheckingDiff' = FALSE
    /\ net' = net \ {m}
    /\ UNCHANGED <<variant, folderPath, searchQuery, effectPath, cycles, opCount,
                   clock, nativeOnlyVars>>
    /\ ViewKept

(***************************************************************************)
(* Specification                                                           *)
(***************************************************************************)
\* the state after the first render of the mounted App component
(***************************************************************************)
(* The native-picker shell                                                 *)
(***************************************************************************)
NativeShell == variant \in {"native", "fallback"}

\* directories the user may pick in showDirectoryPicker()
DirHandles ==
    { DirHandle(<<"e">>, << >>),
      DirHandle(<<"d">>, <<FileHandle(<<"b">>, 1, 1), DirHandle(<<"A">>, << >>)>>) }

\* selections the user may make in the manual file input; the empty one is a
\* dialog closed without a selection
FileLists ==
    { << >>,
      <<FileOf(<<"d", "/", "b">>, 1, 1), FileOf(<<"d", "/", "a", "/", "c">>, 2, 1)>> }

\* error.name of a rejected showDirectoryPicker() or traverseDirectory()
ErrorNames == {"AbortError", "SecurityError", "NotAllowedError"}

\* window.self === window.top && "showDirectoryPicker" in window
PickerAvailable == variant = "native"

\* a handleSelectDirectory call suspended at an await (pc "picker",
\* "traverse"), or the file input it opened (pc "input")
Selection(id, pc, dirHandle) == [id |-> id, pc |-> pc, dirHandle |-> dirHandle]

\* the header button <Button onClick={handleSelectDirectory} disabled={loading}>
SelectDirectoryEnabled == NativeShell /\ ~loading

\* the welcome screen's <Button onClick={handleSelectDirectory} size="lg">
NativeGetStartedEnabled == NativeShell /\ rootDirectory = None

\* handleSelectDirectory up to its first await, or to input.click()
handleSelectDirectory ==
    /\ ShellVisible
    /\ SelectDirectoryEnabled \/ NativeGetStartedEnabled
    /\ opCount < MaxOps
    /\ opCount' = opCount + 1
    /\ clock' = clock + 1
    /\ IF PickerAvailable
       THEN /\ loading' = TRUE
            /\ pickers' = pickers \cup {Selection(clock + 1, "picker", None)}
       ELSE /\ loading' = loading
            /\ pickers' = pickers \cup {Selection(clock + 1, "input", None)}
    /\ UNCHANGED <<variant, rootDirectory, searchQuery, lastDone, allFiles,
                   usesFallback, inputFiles, apiOnlyVars>>
    /\ ViewKept

\* showDirectoryPicker() resolves with the directory the user picked
PickerResolves(p, dirHandle) ==
    /\ p \in pickers
    /\ p.pc = "picker"
    /\ pickers' = (pickers \ {p}) \cup {Selection(p.id, "traverse", Some(dirHandle))}
    /\ UNCHANGED <<variant, rootDirectory, searchQuery, opCount, clock, lastDone,
                   loading, allFiles, usesFallback, inputFiles, apiOnlyVars>>
    /\ ViewKept

\* the catch block of handleSelectDirectory, for the promise awaited at pc
SelectionLeavesLoading(p, name) ==
    /\ pickers' = (pickers \ {p})
                    \cup (IF name \in {"SecurityError", "NotAllowedError"}
                          THEN {Selection(p.id, "input", None)} ELSE {})
    /\ loading' = loading
    /\ lastDone' = Some([kind |-> "select", ok |-> FALSE, at |-> p.pc])
    /\ UNCHANGED <<variant, rootDirectory, searchQuery, opCount, clock,
                   allFiles, usesFallback, inputFiles, apiOnlyVars>>
    /\ ViewKept

SelectionFailed(p, name) ==
    /\ pickers' = (pickers \ {p})
                    \cup (IF name \in {"SecurityError", "NotAllowedError"}
                          THEN {Selection(p.id, "input", None)} ELSE {})
    /\ loading' = FALSE
    /\ lastDone' = Some([kind |-> "select", ok |-> FALSE, at |-> p.pc])
    /\ UNCHANGED <<variant, rootDirectory, searchQuery, opCount, clock,
                   allFiles, usesFallback, inputFiles, apiOnlyVars>>
    /\ ViewKept

PickerRejects(p, name) ==
    /\ p \in pickers
    /\ p.pc = "picker"
    /\ SelectionFailed(p, name)

\* traverseDirectory(dirHandle) resolves: the rest of the try block
TraverseResolves(p) ==
    /\ p \in pickers
    /\ p.pc = "traverse"
    /\ LET tree == traverseDirectory(p.dirHandle[1], << >>)
       IN  /\ rootDirectory' = Some(tree)
           /\ allFiles' = flattenFiles(tree)
    /\ usesFallback' = FALSE
    /\ loading' = FALSE
    /\ pickers' = pickers \ {p}
    /\ lastDone' = Some([kind |-> "select", ok |-> TRUE, at |-> p.pc])
    /\ UNCHANGED <<variant, searchQuery, opCount, clock, inputFiles, apiOnlyVars>>
    /\ ViewKept

TraverseRejects(p, name) ==
    /\ p \in pickers
    /\ p.pc = "traverse"
    /\ SelectionFailed(p, name)

\* input.onchange with the files selected; the dialog of the input is closed by it
InputChange(p, selected) ==
    /\ p \in pickers
    /\ p.pc = "input"
    /\ pickers' = pickers \ {p}
    /\ IF Len(selected) > 0
       THEN LET tree == buildFileTree(selected)
            IN  /\ rootDirectory' = Some(tree)
                /\ allFiles' = flattenFiles(tree)
                /\ usesFallback' = TRUE
                /\ loading' = FALSE
                /\ inputFiles' = selected
                /\ lastDone' = Some([kind |-> "select", ok |-> TRUE, at |-> p.pc])
       ELSE UNCHANGED <<rootDirectory, allFiles, usesFallback, loading, inputFiles, lastDone>>
    /\ UNCHANGED <<variant, searchQuery, opCount, clock, apiOnlyVars>>
    /\ ViewKept

Init ==
    /\ variant \in {"diff", "api", "native", "fallback"}
    /\ folderPath = << >>
    /\ rootDirectory = None
    /\ summaries = << >>
    /\ searchQuery = << >>
    /\ isLoading = FALSE
    /\ error = None
    /\ hasChanges = FALSE
    /\ isCheckingDiff = FALSE
    /\ diffChecked = FALSE
    /\ effectPath = None
    /\ cycles = {}
    /\ net = {}
    /\ opCount = 0
    /\ clock = 0
    /\ flagStamp = 0
    /\ lastDone = None
    /\ loading = FALSE
    /\ allFiles = << >>
    /\ usesFallback = FALSE
    /\ inputFiles = << >>
    /\ pickers = {}
    /\ expandedDirs = {}
    /\ selectedFile = None
    /\ showFileDetail = FALSE
    /\ fileContent = None
    /\ previewType = "unsupported"
    /\ mounts = 0
    /\ previews = {}
    /\ objectURLs = {}
    /\ rejections = {}
    /\ columnWidths = InitialWidths
    /\ sortColumn = None
    /\ sortDirection = "asc"
    /\ resizing = None
    /\ startX = 0
    /\ startWidth = 0
    /\ listeners = {}
    /\ drags = 0

Next ==
    \/ \E v \in FolderInputs : SetFolderPath(v)
    \/ \E q \in SearchTexts : SetSearchQuery(q)
    \/ handleLoadFolder
    \/ handleRegenerate
    \/ handleSync
    \/ clickCheckChanges
    \/ \E c \in cycles : \E o \in Outcomes(TreeResponses) : LoadTreeReturns(c, o)
    \/ \E c \in cycles : \E o \in Outcomes(SummaryResponses) : LoadSummaryReturns(c, o)
    \/ \E c \in cycles : \E o \in Outcomes(TreeResponses) : RegenerateTreeReturns(c, o)
    \/ \E c \in cycles : \E o \in Outcomes(SummaryResponses) : RegenerateSummaryReturns(c, o)
    \/ \E c \in cycles : \E o \in Outcomes(SummaryResponses) : SyncSummaryReturns(c, o)
    \/ \E c \in cycles : \E o \in Outcomes(TreeResponses) : SyncTreeReturns(c, o)
    \/ \E m \in PendingDiffs : \E o \in Outcomes(BOOLEAN) : DiffReturns(m, o)
    \/ handleSelectDirectory
    \/ \E p \in pickers : \E h \in DirHandles : PickerResolves(p, h)
    \/ \E p \in pickers : \E n \in ErrorNames : PickerRejects(p, n)
    \/ \E p \in pickers : TraverseResolves(p)
    \/ \E p \in pickers : \E n \in ErrorNames : TraverseRejects(p, n)
    \/ \E p \in pickers : \E f \in FileLists : InputChange(p, f)

Spec == Init /\ [][Next]_vars

\* an outstanding tree or summary request is answered
CycleResponds ==
    \/ \E c \in cycles : \E o \in Outcomes(TreeResponses) : LoadTreeReturns(c, o)
    \/ \E c \in cycles : \E o \in Outcomes(SummaryResponses) : LoadSummaryReturns(c, o)
    \/ \E c \in cycles : \E o \in Outcomes(TreeResponses) : RegenerateTreeReturns(c, o)
    \/ \E c \in cycles : \E o \in Outcomes(SummaryResponses) : RegenerateSummaryReturns(c, o)
    \/ \E c \in cycles : \E o \in Outcomes(SummaryResponses) : SyncSummaryReturns(c, o)
    \/ \E c \in cycles : \E o \in Outcomes(TreeResponses) : SyncTreeReturns(c, o)

\* an outstanding diff request is answered
DiffResponds == \E m \in PendingDiffs : \E o \in Outcomes(BOOLEAN) : DiffReturns(m, o)

\* an outstanding picker or traversal promise settles
PromiseSettles ==
    \/ \E p \in pickers : \E h \in DirHandles : PickerResolves(p, h)
    \/ \E p \in pickers : \E n \in ErrorNames : PickerRejects(p, n)
    \/ \E p \in pickers : TraverseResolves(p)
    \/ \E p \in pickers : \E n \in ErrorNames : TraverseRejects(p, n)

\* every outstanding request and every outstanding promise is eventually
\* answered or settled
LiveSpec ==
    Spec /\ WF_vars(CycleResponds) /\ WF_vars(DiffResponds) /\ WF_vars(PromiseSettles)

(***************************************************************************)
(* The tree view, the listing and the detail pane                          *)
(***************************************************************************)
\* detail panes a behaviour may open
MaxPreviews == 2

\* the variables the views leave alone
appVars == <<variant, rootDirectory, searchQuery, opCount, clock, lastDone,
             apiOnlyVars, nativeOnlyVars>>

shellVars == <<appVars, drags>>

\* the rows of the tree and of the listing can be clicked: a root directory
\* is rendered, and the loading dialog of the shell with change detection
\* does not cover the page
Clickable == ShellVisible /\ rootDirectory # None /\ ~(variant = "diff" /\ isLoading)

\* <TreeView nodes={[rootDirectory]} ... />
nodesProp == <<rootDirectory[1]>>

\* getAllDirectoryPaths
RECURSIVE getAllDirectoryPaths(_)
getAllDirectoryPaths(nodes) ==
    IF nodes = << >> THEN << >>
    ELSE LET node == Head(nodes)
         IN  (IF node.isDirectory
              THEN <<node.path>> \o (IF node.children # None
                                     THEN getAllDirectoryPaths(node.children[1])
                                     ELSE << >>)
              ELSE << >>)
             \o getAllDirectoryPaths(Tail(nodes))

\* the rows TreeView renders for nodes: every node, and below a directory
\* that is expanded and has children, the rows of the nested TreeView
RECURSIVE renderedRows(_, _)
renderedRows(nodes, expanded) ==
    IF nodes = << >> THEN << >>
    ELSE LET node == Head(nodes)
         IN  <<node>>
             \o (IF node.isDirectory /\ node.path \in expanded /\ node.children # None
                 THEN renderedRows(node.children[1], expanded)
                 ELSE << >>)
             \o renderedRows(Tail(nodes), expanded)

\* toggleDirectory(path) on the internal state
toggleDirectory(path) ==
    expandedDirs' = IF path \in expandedDirs THEN expandedDirs \ {path}
                    ELSE expandedDirs \cup {path}

\* file.name.split(".").pop()?.toLowerCase()
extensionOf(name) ==
    LET dots == {i \in 1..Len(name) : name[i] = "."}
    IN  toLowerCase(IF dots = {} THEN name
                    ELSE SubSeq(name, (CHOOSE i \in dots : \A j \in dots : j <= i) + 1,
                                Len(name)))

ImageExtensions ==
    { <<"j", "p", "g">>, <<"j", "p", "e", "g">>, <<"p", "n", "g">>, <<"g", "i", "f">>,
      <<"b", "m", "p">>, <<"w", "e", "b", "p">>, <<"s", "v", "g">> }

TextExtensions ==
    { <<"t", "x", "t">>, <<"j", "s", "o", "n">>, <<"j", "s">>, <<"j", "s", "x">>,
      <<"t", "s">>, <<"t", "s", "x">>, <<"c", "s", "s">>, <<"h", "t", "m", "l">>,
      <<"m", "d">>, <<"x", "m", "l">>, <<"c", "s", "v">> }

\* the branch of loadFilePreview the extension selects
previewKind(file) ==
    IF extensionOf(file.name) \in ImageExtensions THEN "image"
    ELSE IF extensionOf(file.name) \in TextExtensions THEN "text"
    ELSE "unsupported"

\* file.handle && typeof file.handle.getFile === "function"
hasGetFile(file) == file.handle = "fileHandle"

\* a loadFilePreview call suspended at an await
Preview(mount, pc, file) == [mount |-> mount, pc |-> pc, file |-> file]

\* loadFilePreview from "Determine preview type" to its next await or its
\* end, for the FileDetail mount that called it; fileObj is defined unless
\* the node has no handle; mounted: that FileDetail is still mounted, so its
\* setState calls take effect; pending: the other suspended calls.
\* URL.createObjectURL(undefined) and undefined.text() throw a TypeError,
\* which rejects the promise of the call.
previewFileObj(mount, file, defined, mounted, pending) ==
    /\ previewType' = IF mounted THEN previewKind(file) ELSE previewType
    /\ fileContent' =
          IF mounted /\ previewKind(file) = "image" /\ defined THEN Some("url")
          ELSE IF mounted /\ previewKind(file) = "unsupported" THEN None
          ELSE fileContent
    /\ objectURLs' = IF previewKind(file) = "image" /\ defined
                     THEN objectURLs \cup {mount} ELSE objectURLs
    /\ rejections' = IF previewKind(file) \in {"image", "text"} /\ ~defined
                     THEN rejections \cup {mount} ELSE rejections
    /\ previews' = IF previewKind(file) = "text" /\ defined
                   THEN pending \cup {Preview(mount, "text", file)} ELSE pending

\* handleFileSelect(file), the render that replaces the shell by a new
\* FileDetail, and the effect of that FileDetail: loadFilePreview up to its
\* first await
handleFileSelect(file) ==
    /\ mounts < MaxPreviews
    /\ selectedFile' = Some(file)
    /\ showFileDetail' = TRUE
    /\ mounts' = mounts + 1
    /\ expandedDirs' = {}
    /\ unmountFileList
    /\ IF file.isDirectory
       THEN UNCHANGED <<fileContent, previewType, previews, objectURLs, rejections>>
       ELSE IF hasGetFile(file)
       THEN /\ previews' = previews \cup {Preview(mounts + 1, "getFile", file)}
            /\ UNCHANGED <<fileContent, previewType, objectURLs, rejections>>
       ELSE previewFileObj(mounts + 1, file, file.handle = "file", TRUE, previews)

\* the onClick of a row of the tree
clickTreeRow(node) ==
    /\ Clickable
    /\ \E i \in 1..Len(renderedRows(nodesProp, expandedDirs)) :
          renderedRows(nodesProp, expandedDirs)[i] = node
    /\ IF node.isDirectory
       THEN toggleDirectory(node.path) /\ UNCHANGED <<detailVars, listVars>>
       ELSE handleFileSelect(node)
    /\ UNCHANGED shellVars

\* Expand All restricted to the directories whose rows are rendered
expandRendered ==
    /\ Clickable
    /\ expandedDirs' = expandedDirs \cup
          {n.path : n \in {m \in Range(renderedRows(nodesProp, expandedDirs)) :
                             m.isDirectory}}
    /\ UNCHANGED <<detailVars, listVars, shellVars>>

\* the Expand All button of the top-level TreeView
expandAll ==
    /\ Clickable
    /\ expandedDirs' = Range(getAllDirectoryPaths(nodesProp))
    /\ UNCHANGED <<detailVars, listVars, shellVars>>

\* the Collapse All button of the top-level TreeView
collapseAll ==
    /\ Clickable
    /\ expandedDirs' = {}
    /\ UNCHANGED <<detailVars, listVars, shellVars>>

\* the onClick of a row of the listing
clickListRow(file) ==
    /\ Clickable
    /\ file \in Range(filteredFiles)
    /\ handleFileSelect(file)
    /\ UNCHANGED shellVars

\* onClose of the detail pane: the FileDetail is unmounted and the shell,
\* with a new TreeView, is rendered again
closeDetail ==
    /\ DetailOpen
    /\ showFileDetail' = FALSE
    /\ fileContent' = None
    /\ previewType' = "unsupported"
    /\ UNCHANGED <<selectedFile, mounts, previews, objectURLs, rejections,
                   expandedDirs, listVars, shellVars>>

\* the FileDetail that called pv is still the one mounted
StillMounted(pv) == DetailOpen /\ pv.mount = mounts

\* fileHandle.getFile() resolves
GetFileResolves(pv) ==
    /\ pv \in previews
    /\ pv.pc = "getFile"
    /\ previewFileObj(pv.mount, pv.file, TRUE, StillMounted(pv), previews \ {pv})
    /\ UNCHANGED <<selectedFile, showFileDetail, mounts, expandedDirs, listVars,
                   shellVars>>

\* fileHandle.getFile() or fileObj.text() rejects
PreviewRejects(pv) ==
    /\ pv \in previews
    /\ previews' = previews \ {pv}
    /\ rejections' = rejections \cup {pv.mount}
    /\ UNCHANGED <<selectedFile, showFileDetail, mounts, fileContent, previewType,
                   objectURLs, expandedDirs, listVars, shellVars>>

\* fileObj.text() resolves
TextResolves(pv) ==
    /\ pv \in previews
    /\ pv.pc = "text"
    /\ previews' = previews \ {pv}
    /\ fileContent' = IF StillMounted(pv) THEN Some("text") ELSE fileContent
    /\ UNCHANGED <<selectedFile, showFileDetail, mounts, previewType, objectURLs,
                   rejections, expandedDirs, listVars, shellVars>>

(***************************************************************************)
(* The listing: sorting and column resizing                                *)
(***************************************************************************)
\* mouse-downs on a resize handle a behaviour may make
MaxDrags == 1

\* the columns whose header has a resize handle in the behaviours, and the
\* clientX of the mouse events
ResizeHandles == {"name", "type"}

SortColumns == {"name"}

PointerXs == {100, 160, 400}

Max(a, b) == IF a >= b THEN a ELSE b

\* files.length > 0: the table, with its headers and handles, is rendered
\* and not covered
TableRendered == Clickable /\ filteredFiles # << >>

\* handleSort(column), the onClick of a column header
handleSort(column) ==
    /\ TableRendered
    /\ IF sortColumn = Some(column)
       THEN /\ sortDirection' = (IF sortDirection = "asc" THEN "desc" ELSE "asc")
            /\ UNCHANGED sortColumn
       ELSE /\ sortColumn' = Some(column)
            /\ sortDirection' = "asc"
    /\ UNCHANGED <<columnWidths, resizing, startX, startWidth, listeners, drags,
                   expandedDirs, detailVars, appVars>>

\* handleMouseDown(column, e), the onMouseDown of a resize handle, and the
\* effect on [resizing] of the render it causes: the clean-up removes the
\* listeners of the previous run, the new run registers them
handleMouseDown(column, clientX) ==
    /\ TableRendered
    /\ drags < MaxDrags
    /\ drags' = drags + 1
    /\ resizing' = Some(column)
    /\ startX' = clientX
    /\ startWidth' = columnWidths[column]
    /\ listeners' = {"mousemove", "mouseup"}
    /\ UNCHANGED <<columnWidths, sortColumn, sortDirection, expandedDirs, detailVars,
                   appVars>>

\* a handleMouseMove without Math.max(50, ...)
handleMouseMoveUnclamped(clientX) ==
    /\ IF resizing = None THEN UNCHANGED columnWidths
       ELSE columnWidths' =
                [columnWidths EXCEPT ![resizing[1]] = startWidth + (clientX - startX)]
    /\ UNCHANGED <<sortColumn, sortDirection, resizing, startX, startWidth, listeners,
                   drags, expandedDirs, detailVars, appVars>>

\* handleMouseMove, the mousemove listener of the effect
handleMouseMove(clientX) ==
    /\ IF resizing = None THEN UNCHANGED columnWidths
       ELSE columnWidths' =
                [columnWidths EXCEPT
                    ![resizing[1]] = Max(50, startWidth + (clientX - startX))]
    /\ UNCHANGED <<sortColumn, sortDirection, resizing, startX, startWidth, listeners,
                   drags, expandedDirs, detailVars, appVars>>

\* handleMouseUp, the mouseup listener of the effect, and the effect on
\* [resizing] of the render it causes: the clean-up removes both listeners
\* and the new run registers none
handleMouseUp ==
    /\ resizing' = None
    /\ listeners' = {}
    /\ UNCHANGED <<columnWidths, sortColumn, sortDirection, startX, startWidth,
                   drags, expandedDirs, detailVars, appVars>>

\* a mousemove event on document: the listener runs if it is registered
mouseMove(clientX) ==
    IF "mousemove" \in listeners THEN handleMouseMove(clientX) ELSE UNCHANGED vars

\* a mouseup event on document
mouseUp ==
    IF "mouseup" \in listeners THEN handleMouseUp ELSE UNCHANGED vars

(***************************************************************************)
(* The tree builders on their own                                          *)
(***************************************************************************)
\* files in one selection of the manual file input
MaxFiles == 2

\* relative paths of selected files: below a directory "d", and below a
\* directory that is itself called "root"
FlatPaths ==
    { <<"d", "/", "b">>,
      <<"d", "/", "b", "/", "c">>,
      <<"r", "o", "o", "t", "/", "x">>,
      <<"r", "o", "o", "t", "/", "r", "o", "o", "t">>,
      <<"r", "o", "o", "t", "/", "r", "o", "o", "t", "/", "x">> }

\* one File of every path, and a second File of the path "d/b" that differs
\* in size
FlatFiles ==
    {FileOf(path, 1, 1) : path \in FlatPaths} \cup {FileOf(<<"d", "/", "b">>, 2, 1)}

\* every File[] of at most MaxFiles files
FlatLists == UNION {[1..n -> FlatFiles] : n \in 0..MaxFiles}

\* directories the user may pick, among them one called "root" that holds a
\* file and a directory called "root"
HandleTrees ==
    DirHandles \cup
    { DirHandle(<<"r", "o", "o", "t">>,
                <<FileHandle(<<"x">>, 1, 1),
                  DirHandle(<<"r", "o", "o", "t">>, <<FileHandle(<<"x">>, 2, 1)>>)>>) }

BuildInit == Init /\ NativeShell

BuildNext ==
    \/ handleSelectDirectory
    \/ \E p \in pickers : \E h \in HandleTrees : PickerResolves(p, h)
    \/ \E p \in pickers : TraverseResolves(p)
    \/ \E p \in pickers : \E f \in FlatLists : InputChange(p, f)

\* the native-picker shell with every selection of FlatLists and HandleTrees
BuildSpec == BuildInit /\ [][BuildNext]_vars

(***************************************************************************)
(* The views on their own                                                  *)
(***************************************************************************)
\* an image, a text file and a directory with a file, as the tree API lists them
ApiImage == ApiNode(<<"i", ".", "p", "n", "g">>, <<"i", ".", "p", "n", "g">>, "file", 1, 1, None)

ApiText == ApiNode(<<"t", ".", "m", "d">>, <<"t", ".", "m", "d">>, "file", 1, 1, None)

ViewTreeResponses == { <<ApiImage, ApiText, ApiD>> }

ViewSummaryResponses ==
    { <<Summary(<<"i", ".", "p", "n", "g">>), Summary(<<"d", "/", "b">>)>> }

\* a directory with an image and a text file
ViewHandles ==
    { DirHandle(<<"d">>, <<FileHandle(<<"i", ".", "p", "n", "g">>, 1, 1),
                           FileHandle(<<"t", ".", "m", "d">>, 1, 1)>>) }

ViewFileLists ==
    { <<FileOf(<<"d", "/", "i", ".", "p", "n", "g">>, 1, 1),
        FileOf(<<"d", "/", "a", "/", "t", ".", "m", "d">>, 1, 1)>> }

\* the nodes a click can be on
ClickableNodes ==
    IF rootDirectory = None THEN {}
    ELSE Range(flattenFiles(rootDirectory[1])) \cup Range(filteredFiles)

\* loads and selections of a directory, and every click in the tree, in the
\* listing and in the detail pane
ViewNext ==
    \/ SetFolderPath(<<"a">>)
    \/ handleLoadFolder
    \/ \E c \in cycles : \E o \in Outcomes(ViewTreeResponses) : LoadTreeReturns(c, o)
    \/ \E c \in cycles : \E o \in Outcomes(ViewSummaryResponses) : LoadSummaryReturns(c, o)
    \/ handleSelectDirectory
    \/ \E p \in pickers : \E h \in ViewHandles : PickerResolves(p, h)
    \/ \E p \in pickers : TraverseResolves(p)
    \/ \E p \in pickers : \E f \in ViewFileLists : InputChange(p, f)
    \/ \E node \in ClickableNodes : clickTreeRow(node)
    \/ expandAll
    \/ collapseAll
    \/ \E file \in ClickableNodes : clickListRow(file)
    \/ closeDetail
    \/ \E pv \in previews : GetFileResolves(pv)
    \/ \E pv \in previews : PreviewRejects(pv)
    \/ \E pv \in previews : TextResolves(pv)

ViewSpec == Init /\ [][ViewNext]_vars

(***************************************************************************)
(* The tree view across replacements of the tree                           *)
(***************************************************************************)
\* the directories of the tree on display
directoriesOnDisplay ==
    IF rootDirectory = None THEN {}
    ELSE {n \in Range(flattenFiles(rootDirectory[1])) : n.isDirectory}

ReplaceInit == Init /\ ApiShell

\* Load, Regenerate and Sync with every answer of the API, the change check
\* that enables Sync, and the clicks that change the expanded set
ReplaceNext ==
    \/ \E v \in FolderInputs : SetFolderPath(v)
    \/ handleLoadFolder
    \/ handleRegenerate
    \/ handleSync
    \/ \E c \in cycles : \E o \in Outcomes(TreeResponses) : LoadTreeReturns(c, o)
    \/ \E c \in cycles : \E o \in Outcomes(SummaryResponses) : LoadSummaryReturns(c, o)
    \/ \E c \in cycles : \E o \in Outcomes(TreeResponses) : RegenerateTreeReturns(c, o)
    \/ \E c \in cycles : \E o \in Outcomes(SummaryResponses) : RegenerateSummaryReturns(c, o)
    \/ \E c \in cycles : \E o \in Outcomes(SummaryResponses) : SyncSummaryReturns(c, o)
    \/ \E c \in cycles : \E o \in Outcomes(TreeResponses) : SyncTreeReturns(c, o)
    \/ \E m \in PendingDiffs : \E o \in Outcomes(BOOLEAN) : DiffReturns(m, o)
    \/ \E node \in directoriesOnDisplay : clickTreeRow(node)
    \/ expandAll
    \/ collapseAll

ReplaceSpec == ReplaceInit /\ [][ReplaceNext]_vars

(***************************************************************************)
(* The listing on its own                                                  *)
(***************************************************************************)
ResizeInit == Init /\ variant = "diff"

\* loads that install or clear the tree, the mouse events of a column
\* resize, and the click that opens the detail pane
ResizeNext ==
    \/ SetFolderPath(<<"a">>)
    \/ handleLoadFolder
    \/ \E c \in cycles : \E o \in Outcomes(ViewTreeResponses) : LoadTreeReturns(c, o)
    \/ \E c \in cycles : \E o \in Outcomes(ViewSummaryResponses) : LoadSummaryReturns(c, o)
    \/ \E column \in ResizeHandles : \E x \in PointerXs : handleMouseDown(column, x)
    \/ \E x \in PointerXs : mouseMove(x)
    \/ mouseUp
    \/ \E file \in ClickableNodes : clickListRow(file)

ResizeSpec == ResizeInit /\ [][ResizeNext]_vars

(***************************************************************************)
(* The held state of the tree view and of the listing across the detail    *)
(* pane                                                                    *)
(***************************************************************************)
ListInit == Init /\ variant = "diff"

\* a load, the clicks and mouse events that change the expanded set, the
\* sort order and the column widths, and the detail pane opened and closed
ListNext ==
    \/ SetFolderPath(<<"a">>)
    \/ handleLoadFolder
    \/ \E c \in cycles : \E o \in Outcomes(ViewTreeResponses) : LoadTreeReturns(c, o)
    \/ \E c \in cycles : \E o \in Outcomes(ViewSummaryResponses) : LoadSummaryReturns(c, o)
    \/ expandAll
    \/ \E column \in SortColumns : handleSort(column)
    \/ \E column \in ResizeHandles : \E x \in PointerXs : handleMouseDown(column, x)
    \/ \E x \in PointerXs : mouseMove(x)
    \/ mouseUp
    \/ \E file \in ClickableNodes : clickListRow(file)
    \/ closeDetail

ListSpec == ListInit /\ [][ListNext]_vars

(***************************************************************************)
(* Properties                                                              *)
(***************************************************************************)
\* the handler call c ends in this step (it is not suspended again)
Completed(c) == \A d \in cycles' : d.id # c.id

Ended(kind, ok) == lastDone # None /\ lastDone[1].kind = kind /\ lastDone[1].ok = ok

\* C1: when a Regenerate ends in failure, the root tree and the summaries
\* are the values they had when it was triggered, the error message is set
\* and isLoading is false.
C1_RegenerateFailureKeepsState ==
    [][\A c \in cycles :
          (c.kind = "regenerate" /\ Completed(c) /\ ~lastDone'[1].ok)
              => /\ rootDirectory' = c.snapRoot
                 /\ summaries' = c.snapSummaries
                 /\ error' # None
                 /\ ~isLoading']_vars

\* a Regenerate has failed with a tree and summaries on display
C1_Witness ==
    /\ Ended("regenerate", FALSE)
    /\ rootDirectory # None /\ summaries # << >> /\ error # None /\ ~isLoading

\* C2: when a Load ends in failure the root tree is null, the summaries are
\* empty and the error message is set; when it succeeds the error message
\* is null.
C2_LoadOutcome ==
    [][\A c \in cycles :
          (c.kind = "load" /\ Completed(c))
              => IF lastDone'[1].ok
                 THEN error' = None /\ rootDirectory' # None
                 ELSE rootDirectory' = None /\ summaries' = << >> /\ error' # None]_vars

\* a Load has failed after a tree had been loaded and checked for changes
C2_Witness ==
    /\ Ended("load", FALSE)
    /\ rootDirectory = None /\ summaries = << >> /\ error # None /\ diffChecked

\* the characters a and b are equal up to case
SameLetter(a, b) == LowerChar(a) = LowerChar(b)

\* text occurs in name, compared case-insensitively
ContainsIgnoringCase(name, text) ==
    \E i \in 0..(Len(name) - Len(text)) :
        \A j \in 1..Len(text) : SameLetter(name[i + j], text[j])

\* C3: a node of the flattened tree is in the listing handed to the listing
\* view iff some summary has exactly the node's path and the node's name
\* contains the search text, compared case-insensitively.
C3_ListingIffSummaryAndMatch ==
    (ApiShell /\ rootDirectory # None) =>
        \A f \in Range(flattenFiles(rootDirectory[1])) :
            f \in Range(filteredFiles)
                <=> /\ \E i \in 1..Len(summaries) : summaries[i].filePath = f.path
                    /\ ContainsIgnoringCase(f.name, searchQuery)

\* C4: at most one Load / Regenerate / Sync call is in flight, isLoading is
\* true while one is, and while isLoading is true no control that starts a
\* call is enabled.
C4_OneCycleInFlight ==
    ApiShell =>
        /\ Cardinality(cycles) <= 1
        /\ cycles # {} => isLoading
        /\ isLoading => ~(LoadButtonEnabled \/ EnterKeyEnabled \/ GetStartedEnabled
                            \/ RegenerateEnabled \/ SyncEnabled)

\* a Sync is in flight
C4_Witness == \E c \in cycles : c.kind = "sync" /\ isLoading

\* C5: the answer to a check-for-changes never overwrites a changed-flag
\* value written by an action newer than the start of that check (a
\* Regenerate or Sync that completed after it started, or a check started
\* after it).
C5_NoStaleFlagWrite ==
    [][\A m \in PendingDiffs :
          (m \notin net' /\ flagStamp' = 2 * m.owner) => flagStamp <= 2 * m.owner]_vars

\* C6: within a Sync no tree request is out while the summary request is;
\* the tree request is sent only once the summary body has been received;
\* a Sync that ends at its summary request sends no tree request and leaves
\* the tree and the summaries as they were.
C6_SyncSummaryBeforeTree ==
    [][\A c \in cycles :
          (c.kind = "sync" /\ c.pc = "summary")
              => /\ \A m \in Awaited(c) : m.api = "summarize"
                 /\ \A m \in net' :
                       (m.owner = c.id /\ m.api = "tree")
                           => \E d \in cycles' : d.id = c.id /\ d.summaryData \in
                                                    {Some(b) : b \in SummaryResponses}
                 /\ Completed(c)
                       => /\ ~lastDone'[1].ok
                          /\ rootDirectory' = c.snapRoot
                          /\ summaries' = c.snapSummaries]_vars

\* a Sync has ended at its summary request
C6_Witness ==
    /\ lastDone = Some([kind |-> "sync", ok |-> FALSE, at |-> "summary"])
    /\ rootDirectory # None
    /\ \A m \in net : m.api # "tree"

\* C7: in the shell with change detection, the step that ends a Regenerate
\* or a Sync, in success or in failure, clears isLoading and sends a
\* check-for-changes request for the folder of that call; no answer to a
\* check-for-changes request changes the error message or isLoading.
C7_CheckFollowsRefresh ==
    [][/\ \A c \in cycles :
             (variant = "diff" /\ c.kind \in {"regenerate", "sync"} /\ Completed(c))
                 => /\ ~isLoading'
                    /\ \E m \in net' \ net : m.api = "diff" /\ m.folderPath = trim(c.fp)
       /\ \A m \in PendingDiffs :
             m \notin net' => error' = error /\ isLoading' = isLoading]_vars

\* a Regenerate has failed and the check that follows it is out
C7_Witness ==
    /\ Ended("regenerate", FALSE)
    /\ ~isLoading
    /\ PendingDiffs # {}

\* C8: a check-for-changes whose request fails leaves hasChanges,
\* diffChecked, the tree, the summaries and the error message as they were,
\* and ends with isCheckingDiff false.
C8_FailedCheckChangesNothing ==
    [][\A m \in PendingDiffs :
          (m \notin net' /\ ~lastDone'[1].ok)
              => /\ hasChanges' = hasChanges
                 /\ diffChecked' = diffChecked
                 /\ rootDirectory' = rootDirectory
                 /\ summaries' = summaries
                 /\ error' = error
                 /\ ~isCheckingDiff']_vars

\* a check has failed while the flag said "changed"
C8_Witness ==
    /\ Ended("check", FALSE)
    /\ hasChanges /\ diffChecked /\ ~isCheckingDiff

\* C9: the step in which a Regenerate or a Sync replaces the tree and the
\* summaries sets hasChanges and diffChecked to false; the step that ends a
\* failed one leaves both as they were.
C9_FlagClearedOnSuccessOnly ==
    [][\A c \in cycles :
          (variant = "diff" /\ c.kind \in {"regenerate", "sync"} /\ Completed(c))
              => IF lastDone'[1].ok
                 THEN /\ rootDirectory' # None /\ rootDirectory'[1].path = c.fp
                      /\ ~hasChanges' /\ ~diffChecked'
                 ELSE hasChanges' = hasChanges /\ diffChecked' = diffChecked]_vars

\* a Sync (started from the "changed" banner) has succeeded
C9_Witness ==
    /\ Ended("sync", TRUE)
    /\ ~hasChanges /\ ~diffChecked /\ rootDirectory # None

\* handleSelectDirectory calls awaiting showDirectoryPicker() or traverseDirectory()
Selecting == {p \in pickers : p.pc \in {"picker", "traverse"}}

\* a Load, Regenerate, Sync or directory selection is in flight
Busy == cycles # {} \/ Selecting # {}

\* C10: every Load, Regenerate, Sync and native directory selection that
\* starts ends, and the step in which it ends leaves the loading indicator
\* (isLoading, loading) false, on the success path and on every failure
\* path, provided every outstanding request and promise is answered.
C10_EveryCallEndsWithLoadingCleared ==
    /\ [][/\ \A c \in cycles : Completed(c) => ~isLoading'
          /\ \A p \in Selecting : (\A q \in Selecting' : q.id # p.id) => ~loading']_vars
    /\ Busy ~> (~Busy /\ lastDone # None /\ ~isLoading /\ ~loading)

\* a directory selection has ended in the catch block, none is in flight
C10_Witness == NativeShell /\ Ended("select", FALSE) /\ Selecting = {} /\ ~loading

\* the non-directory nodes reachable from node
fileCount(node) ==
    Cardinality({i \in 1..Len(flattenFiles(node)) : ~flattenFiles(node)[i].isDirectory})

\* the current tree is the one buildFileTree returned for inputFiles
BuiltFromFiles == usesFallback /\ rootDirectory # None

\* C11: the tree buildFileTree returns for a flat file list has as many
\* file (non-directory) nodes reachable from its root as the list has
\* entries.
C11_EveryFileReachable ==
    BuiltFromFiles => fileCount(rootDirectory[1]) = Len(inputFiles)

\* C12: the paths of the nodes of the tree buildFileTree returns (root,
\* created directories, files) are pairwise distinct.
C12_PathsPairwiseDistinct ==
    BuiltFromFiles =>
        LET all == flattenFiles(rootDirectory[1])
        IN  \A i, j \in 1..Len(all) : i # j => all[i].path # all[j].path

\* the path of every child of node, and below, is the parent's path, "/",
\* and the child's name
RECURSIVE pathsExtendParent(_)
pathsExtendParent(node) ==
    node.children # None =>
        \A i \in 1..Len(node.children[1]) :
            /\ node.children[1][i].path = node.path \o <<"/">> \o node.children[1][i].name
            /\ pathsExtendParent(node.children[1][i])

\* C13: in the tree of buildFileTree and in the tree of traverseDirectory,
\* every non-root node's path is its parent's path, "/", and its name.
C13_ChildPathExtendsParent ==
    (NativeShell /\ rootDirectory # None) => pathsExtendParent(rootDirectory[1])

\* the orders in which the entries of s can be listed
Reorderings(s) ==
    {[i \in 1..Len(s) |-> s[f[i]]] :
        f \in {g \in [1..Len(s) -> 1..Len(s)] : \A i, j \in 1..Len(s) : i # j => g[i] # g[j]}}

directoryNodes ==
    {i \in 1..Len(flattenFiles(rootDirectory[1])) : flattenFiles(rootDirectory[1])[i].isDirectory}

\* C15: whatever the expanded set held, Expand All leaves in it exactly the
\* paths of the N directories of the current tree (N entries), and
\* Collapse All leaves it empty.
C15_ExpandAllCollapseAll ==
    [][/\ expandAll =>
             /\ expandedDirs' = {flattenFiles(rootDirectory[1])[i].path : i \in directoryNodes}
             /\ Cardinality(expandedDirs') = Cardinality(directoryNodes)
       /\ collapseAll => expandedDirs' = {}]_vars

\* every directory of a tree with three directories is expanded
C15_Witness ==
    /\ Clickable
    /\ Cardinality(directoryNodes) >= 3
    /\ expandedDirs = {flattenFiles(rootDirectory[1])[i].path : i \in directoryNodes}

\* C16: the selected file is never a directory node, and a click on a
\* directory row changes nothing but the expanded set.
C16_OnlyFilesSelected ==
    /\ [](selectedFile # None => ~selectedFile[1].isDirectory)
    /\ [][\A node \in ClickableNodes :
             (node.isDirectory /\ (clickTreeRow(node) \/ clickListRow(node)))
                 => UNCHANGED <<detailVars, shellVars>>]_vars

\* C17: while the detail pane shows a non-directory node without a handle,
\* the loadFilePreview call of that pane has not rejected, and the preview
\* is unavailable: previewType is "unsupported" and there is no content.
C17_NoHandlePreviewUnavailable ==
    (DetailOpen /\ ~selectedFile[1].isDirectory /\ selectedFile[1].handle = "none")
        => /\ mounts \notin rejections
           /\ previewType = "unsupported"
           /\ fileContent = None

\* C18: an object URL that is not released belongs to the preview the
\* detail pane is showing: none is left once the pane is closed, and none of
\* an earlier preview while a later one is shown.
C18_ObjectURLsReleased ==
    /\ ~DetailOpen => objectURLs = {}
    /\ DetailOpen => objectURLs \subseteq {mounts}

\* C19: when a Load whose tree request succeeded is resumed by a summary
\* response whose body cannot be parsed, the load does not fail: the tree of
\* the tree response is installed, summaries are empty, no error message is
\* set and isLoading is cleared.
C19_MalformedSummaryTolerated ==
    [][\A c \in cycles :
          LoadSummaryReturns(c, [kind |-> "parse", data |-> None])
              => /\ rootDirectory' = Some(rootNode(c.fp, c.treeData[1]))
                 /\ summaries' = << >>
                 /\ error' = None
                 /\ ~isLoading']_vars

\* C20: the summary request a Sync call is waiting for carries
\* regenerate = true and sync = true, and its tree request carries
\* regenerate = true.
C20_SyncRequestFlags ==
    \A c \in cycles : \A m \in Awaited(c) :
        c.kind = "sync" =>
            /\ m.api = "summarize" => (m.regenerate = Some(TRUE) /\ m.sync = Some(TRUE))
            /\ m.api = "tree" => m.regenerate = Some(TRUE)

\* the directory loads of the picker that have not ended: a picker that is
\* open, or a traversal that is running
loadsInFlight == {p \in pickers : p.pc \in {"picker", "traverse"}}

\* C23: with the native picker at most one directory load is in flight, and
\* while one is in flight no control that starts a selection is enabled.
C23_OneDirectoryLoadInFlight ==
    variant = "native" =>
        /\ Cardinality(loadsInFlight) <= 1
        /\ loadsInFlight # {} => ~(SelectDirectoryEnabled \/ NativeGetStartedEnabled)

\* C24: a Load that installs a tree, a reload of the folder already loaded
\* included, leaves a check-for-changes request outstanding (the folder path
\* input holding a non-blank path).
C24_LoadStartsCheck ==
    [][\A c \in cycles : \A o \in Outcomes(SummaryResponses) :
          (/\ variant = "diff"
           /\ trim(folderPath) # << >>
           /\ LoadSummaryReturns(c, o)
           /\ rootDirectory' # None)
              => \E m \in net' : m.api = "diff"]_vars

\* C25: hasChanges implies diffChecked, so the pair (diffChecked, hasChanges)
\* is one of unknown (FALSE, FALSE), unchanged (TRUE, FALSE) and changed
\* (TRUE, TRUE).
C25_ChangedImpliesChecked ==
    /\ hasChanges => diffChecked
    /\ <<diffChecked, hasChanges>> \in {<<FALSE, FALSE>>, <<TRUE, FALSE>>, <<TRUE, TRUE>>}

\* a check-for-changes has reported a change, and a later Regenerate or Sync
\* is still awaiting its answers
C25_Witness ==
    /\ hasChanges
    /\ diffChecked
    /\ \E c \in cycles : c.kind \in {"regenerate", "sync"}

\* C26: in the shell with change detection, the requests a click on
\* Regenerate, Sync or Check Changes sends name
\* the folder of the loaded tree: their folderPath is the trimmed path of the
\* root.
C26_RequestsNameLoadedFolder ==
    [][(variant = "diff" /\ (handleRegenerate \/ handleSync \/ clickCheckChanges))
          => \A m \in net' \ net : m.folderPath = trim(rootDirectory[1].path)]_vars

\* C27: a step of a Load, Regenerate or Sync call writes the root tree and
\* the summaries together or writes neither.  A call that goes on to its next
\* request writes neither; a call that ends in failure writes neither, or
\* clears both when it is a Load; a call that ends in success installs the
\* tree built from its tree response and the summaries of its summary
\* response.  In particular a Sync whose tree request failed after its
\* summary request succeeded changes neither.
C27_TreeAndSummariesTogether ==
    [][\A c \in cycles :
          /\ (c \notin cycles' /\ ~Completed(c))
                => UNCHANGED <<rootDirectory, summaries>>
          /\ (Completed(c) /\ ~lastDone'[1].ok)
                => \/ UNCHANGED <<rootDirectory, summaries>>
                   \/ c.kind = "load" /\ rootDirectory' = None /\ summaries' = << >>
          /\ (Completed(c) /\ lastDone'[1].ok)
                => /\ \E t \in TreeResponses :
                          /\ c.kind # "sync" => t = c.treeData[1]
                          /\ rootDirectory' = Some(rootNode(c.fp, t))
                   /\ IF c.kind = "sync" THEN summaries' = c.summaryData[1]
                      ELSE summaries' \in SummaryResponses \cup {<< >>}]_vars

\* a Sync has failed at its tree request, after its summary request had
\* succeeded, with a tree and summaries on display
C27_Witness ==
    /\ lastDone = Some([kind |-> "sync", ok |-> FALSE, at |-> "tree"])
    /\ rootDirectory # None
    /\ summaries # << >>

\* C29: when the last call that completed is a check-for-changes answered for
\* the loaded folder, a Load that replaces that folder by a different one
\* leaves the diff status unknown: diffChecked is false when the new tree is
\* installed, so the status of the previous folder is not shown for it.
C29_NewFolderStatusUnknown ==
    [][\A c \in cycles : \A o \in Outcomes(SummaryResponses) :
          (/\ variant = "diff"
           /\ rootDirectory # None
           /\ Ended("check", TRUE)
           /\ lastDone[1].folderPath = trim(rootDirectory[1].path)
           /\ LoadSummaryReturns(c, o)
           /\ rootDirectory' # None
           /\ trim(rootDirectory'[1].path) # trim(rootDirectory[1].path))
              => ~diffChecked']_vars

\* C28: every path in the expanded set of the tree view is the path of a
\* directory of the tree on display.
C28_ExpandedAreDirectories ==
    expandedDirs \subseteq {n.path : n \in directoriesOnDisplay}

\* C21: from the mouse-down on the resize handle of a column to the next
\* mouse-up, every mouse-move sets the width of that column to
\* max(50, width at mouse-down + (pointer x - pointer x at mouse-down)) and
\* leaves the width of every other column unchanged; a mouse-move outside a
\* drag changes no width; every width of a resizable column stays >= 50.
C21_ResizeFollowsPointer ==
    [][/\ \A column \in ResizeHandles : \A x \in PointerXs :
            handleMouseDown(column, x)
                => /\ resizing' = Some(column)
                   /\ startX' = x
                   /\ startWidth' = columnWidths[column]
                   /\ UNCHANGED columnWidths
       /\ (/\ resizing # None
           /\ resizing' # None
           /\ ~\E column \in ResizeHandles : \E x \in PointerXs :
                   handleMouseDown(column, x))
              => UNCHANGED <<resizing, startX, startWidth>>
       /\ \A x \in PointerXs :
            mouseMove(x)
                => IF resizing # None
                   THEN /\ columnWidths'[resizing[1]] =
                               Max(50, startWidth + (x - startX))
                        /\ \A other \in DOMAIN columnWidths \ {resizing[1]} :
                               columnWidths'[other] = columnWidths[other]
                   ELSE UNCHANGED columnWidths
       /\ \A column \in ResizeHandles : columnWidths'[column] >= 50]_vars

\* C21 witness: during a drag the pointer has moved so far to the left that
\* the width of the dragged column, larger at mouse-down, is held at 50.
C21_Witness ==
    /\ resizing # None
    /\ startWidth > 50
    /\ startWidth + (100 - startX) < 50
    /\ columnWidths[resizing[1]] = 50
    /\ \A other \in DOMAIN columnWidths \ {resizing[1]} :
           columnWidths[other] = InitialWidths[other]

\* C22: the mousemove and mouseup listeners on document are registered only
\* while a drag is active and the listing is mounted: after a mouse-up, and
\* after the listing has been unmounted during a drag, none is registered.
C22_ListenersOnlyWhileDragging ==
    /\ listeners # {} <=> resizing # None
    /\ listeners \in {{}, {"mousemove", "mouseup"}}
    /\ resizing # None => ShellVisible /\ rootDirectory # None

\* C22 witness: a drag that changed a width has been ended by a mouse-up, no
\* listener is registered and the listing is still mounted.
C22_Witness ==
    /\ drags > 0
    /\ resizing = None
    /\ listeners = {}
    /\ columnWidths # InitialWidths
    /\ ShellVisible
    /\ rootDirectory # None

\* C30: opening the detail pane for a file and closing it again leave the
\* expanded set of the tree view, the sort column and direction and the
\* column widths of the listing unchanged.
C30_DetailKeepsViewState ==
    [][((\E file \in ClickableNodes : clickListRow(file)) \/ closeDetail)
          => UNCHANGED <<expandedDirs, sortColumn, sortDirection, columnWidths>>]_vars
====
